---- MODULE Spec2Model ----
(***************************************************************************)
(* A model of hudhook's DirectX 12 overlay hook (hudhook/src/hooks/dx12.rs) *)
(* and of the fence-synchronised frame ring of the standalone experiment   *)
(* (examples/wgpu-experiment/src/bin/dcomp.rs).                            *)
(*                                                                         *)
(* Spec       the hook: the three detours run on the host's render thread, *)
(*            the window-procedure shim on its message-pump thread, the    *)
(*            GPU retires submitted command lists on its own.              *)
(* DcompSpec  the frame ring with fences: render loops that share the      *)
(*            process-wide fence counter, and the GPU signalling fences.   *)
(***************************************************************************)
EXTENDS Integers, Sequences, FiniteSets, TLC

(***************************************************************************)
(* Bounds of the model.                                                    *)
(***************************************************************************)
\* swap chains have 2..MaxBuffers back buffers
MaxBuffers == 3
\* the present trampoline blocks while more than MaxPending overlay lists are queued
MaxPending == 2
\* the wheel accumulators are kept within MaxWheel notches of zero
MaxWheel == 1
\* at most MaxChars queued input characters
MaxChars == 1
\* CPU address of the first render-target-view descriptor, and the increment
RtvBase == 4096
RtvInc == 32
\* the fence counter is followed up to MaxFence
MaxFence == 4
\* hook_imgui is called up to MaxInstalls times
MaxInstalls == 2

(***************************************************************************)
(* Program and platform constants used by the window-procedure shim.       *)
(***************************************************************************)
\* io.keys_down has 256 entries: `if wparam < 256`
KeyTableSize == 256
\* WHEEL_DELTA, the platform's wheel unit
WHEEL_DELTA == 120
\* XBUTTON1
XBUTTON1 == 1
\* WA_INACTIVE
WA_INACTIVE == 0
\* dcomp.rs creates its swap chain with BufferCount: 2
DcompBufferCount == 2

BufferCounts == 2..MaxBuffers
Queues == {"q1", "q2"}
\* the outcomes of the foreground-window and cursor queries of render
CursorQueries == {TRUE}
Statuses == {"S_OK", "DXGI_ERROR"}
WndProcs == {"host", "shim"}
\* threads that may enter a detour; the host's render thread is "render"
DetourThreads == {"render"}
\* the host's threads when ResizeBuffers is called from another thread than Present
HostThreads == {"render", "window"}

(***************************************************************************)
(* Window messages: umsg, wparam, lparam for the window hwnd. A wparam is  *)
(* kept as its two 16-bit words, hi * 65536 + lo.                          *)
(***************************************************************************)
WParam(h, l) == [hi |-> h, lo |-> l]
Msg(u, w) == [hwnd |-> "hwnd", umsg |-> u, wparam |-> w, lparam |-> 0]
NoMsg == Msg("none", WParam(0, 0))

\* every kind the shim translates, with the wparam values that take each branch
AllMessages ==
    { Msg("WM_KEYDOWN", WParam(0, 65)), Msg("WM_KEYDOWN", WParam(0, 300)),
      Msg("WM_KEYUP", WParam(0, 65)), Msg("WM_SYSKEYDOWN", WParam(0, 65)),
      Msg("WM_LBUTTONDOWN", WParam(0, 1)), Msg("WM_LBUTTONUP", WParam(0, 0)),
      Msg("WM_XBUTTONDOWN", WParam(1, 0)), Msg("WM_XBUTTONDOWN", WParam(2, 0)),
      Msg("WM_XBUTTONUP", WParam(2, 0)),
      Msg("WM_MOUSEWHEEL", WParam(120, 0)), Msg("WM_MOUSEWHEEL", WParam(65536 - 120, 0)),
      Msg("WM_MOUSEHWHEEL", WParam(120, 0)),
      Msg("WM_CHAR", WParam(0, 97 + 256)),
      Msg("WM_ACTIVATE", WParam(0, 0)), Msg("WM_ACTIVATE", WParam(0, 1)),
      Msg("WM_PAINT", WParam(0, 0)) }

\* the messages the host window receives while the detours run
Messages ==
    { Msg("WM_KEYDOWN", WParam(0, 65)),
      Msg("WM_ACTIVATE", WParam(0, 0)), Msg("WM_ACTIVATE", WParam(0, 1)),
      Msg("WM_PAINT", WParam(0, 0)) }

hiword(w) == w.hi
loword(w) == w.lo
\* (short) HIWORD(wparam)
GET_WHEEL_DELTA_WPARAM(w) ==
    IF hiword(w) >= 32768 THEN hiword(w) - 65536 ELSE hiword(w)
\* `wparam < 256`
Below(w, n) == w.hi = 0 /\ w.lo < n

(***************************************************************************)
(* The renderer: ImguiRenderer with its imgui io, its frame contexts, the  *)
(* saved window procedure, the focus flag and the captured queue.          *)
(***************************************************************************)
NoRenderer == [exists |-> FALSE]

\* imgui::Context::create(): the io of a fresh context. The wheel accumulators
\* are kept as sums of raw deltas (the value is that sum / WHEEL_DELTA).
NewIo ==
    [ keys_down |-> {}, mouse_down |-> {}, mouse_wheel |-> 0, mouse_wheel_h |-> 0,
      chars |-> << >>, display_size |-> "unset", mouse_pos |-> "unset" ]

\* (0..desc.BufferCount).map(|i| FrameContext { desc_handle, back_buffer, command_allocator })
\* a ring of the size the swap chain was created with, whatever its count is now
RingOfCreationSize(n) ==
    [ i \in 1..2 |-> [ desc_handle |-> RtvBase + (i - 1) * RtvInc,
                       back_buffer |-> i - 1,
                       command_allocator |-> i - 1 ] ]

FrameContexts(n) ==
    [ i \in 1..n |-> [ desc_handle |-> RtvBase + (i - 1) * RtvInc,
                       back_buffer |-> i - 1,
                       command_allocator |-> i - 1 ] ]

\* a constructor that leaves the consumer's initialize callback out
SkipsInitialize(c) == c

\* IMGUI_RENDER_LOOP.get_mut().unwrap().initialize(&mut ctx), on a context that
\* has received c initialize calls
Initialize(c) == c + 1

\* ImguiRenderer::new(swap_chain), given the window procedure SetWindowLongPtrA returned
ImguiRenderer_new(n, oldProc) ==
    [ exists |-> TRUE,
      initialized |-> Initialize(0),
      io |-> NewIo,
      wnd_proc |-> oldProc,
      flags |-> [focused |-> TRUE],
      frame_contexts |-> FrameContexts(n),
      command_queue |-> "none" ]

NoCall == [fn |-> "none"]
NewCall(f, a) == [fn |-> f, args |-> a, ntramp |-> 0, targs |-> a, tret |-> "none", ret |-> "none"]

NoLocal ==
    [ taken |-> NoRenderer, takenLocked |-> FALSE, building |-> NoRenderer,
      hadRenderer |-> FALSE, savedProc |-> "none", prevRing |-> 0, built |-> FALSE,
      idx |-> 0, queueSeen |-> "unset", eclPath |-> "none", destroyedInFlight |-> {},
      cbFlags |-> [set |-> FALSE], rect |-> "none", draw |-> "none", desc |-> 0 ]

\* the last resize the trampoline has carried out and no present has built on yet
NoResize == [count |-> 0, status |-> "none", prev |-> 0]

VARIABLES
    slot,        \* IMGUI_RENDERER: the renderer in the cell, or NoRenderer
    lock,        \* the Mutex in the cell: "free" or the thread holding it
    guard,       \* COMMAND_QUEUE_GUARD is set
    trampoline,  \* TRAMPOLINE is populated
    curWndProc,  \* GWLP_WNDPROC of the host window
    bufferCount, \* the swap chain's buffer count
    backIdx,     \* the swap chain's current back-buffer index
    pending,     \* overlay command lists queued on the GPU: their frame-context indices
    pc,          \* where each detour thread is
    call,        \* the detour invocation in progress on each thread
    nested,      \* the execute-command-lists detour re-entered from render
    loc,         \* locals of the detour in progress
    flog,        \* what the present call in progress has done so far
    resetBusy,   \* the allocator reset of the frame in progress hit a list still in flight
    wpc,         \* where the message-pump thread is
    wmsg,        \* the message the shim was called with
    wpath,       \* how the shim's lock attempt went
    wproc,       \* the window procedure the shim read from the renderer
    wfwd,        \* where the shim sent the message: [to, msg]
    wstale,      \* take() emptied the cell under the shim's guard: the orphan's wnd_proc
    crashed,     \* the process died on an invalid access
    lastResize,  \* the resize forwarded last, until a present builds a renderer
    dfence,      \* dcomp: FENCE_MAX
    dctx,        \* dcomp: the frame contexts of each loop
    dpc,         \* dcomp: where each loop is
    didx,        \* dcomp: the back-buffer index each loop acquired
    dqueue,      \* dcomp: what each loop's command queue still has to execute
    dhanded,     \* dcomp: the fence values handed out by incr, in order
    dtmp,        \* dcomp: a value fetched from FENCE_MAX, not yet stored
    dbusy,       \* dcomp: the allocator reset hit a list still in flight
    table,       \* TRAMPOLINE's content: the three trampoline pointers, once set
    renderLoop,  \* IMGUI_RENDER_LOOP: the hook_imgui call whose render loop it holds, or 0
    mh,          \* MinHook's record of each target: "none", "created", "enabled"
    hpc,         \* where hook_imgui is
    hcalls,      \* the number of hook_imgui calls made so far
    htramp,      \* hook_imgui's locals trampoline_dscp, trampoline_cqecl, trampoline_rbuf
    hstatus,     \* the status of each MH_CreateHook of the call in progress
    hpublished,  \* the call in progress has set TRAMPOLINE
    hret,        \* what the call in progress has returned
    hooksHeld,   \* the caller has hook records to enable
    hfired       \* how the last detour invocation found its trampoline

hookVars == << slot, lock, guard, trampoline, curWndProc, bufferCount, backIdx, pending,
               pc, call, nested, loc, flog, resetBusy,
               wpc, wmsg, wpath, wproc, wfwd, wstale, crashed, lastResize,
               table, renderLoop, mh, hpc, hcalls, htramp, hstatus, hpublished, hret,
               hooksHeld, hfired >>
dcompVars == << dfence, dctx, dpc, didx, dqueue, dhanded, dtmp, dbusy >>
vars == << hookVars, dcompVars >>

hostVars == << curWndProc, bufferCount, backIdx, pending >>
pumpVars == << wpc, wmsg, wpath, wproc, wfwd, wstale >>
threadVars == << pc, call, nested, loc, flog, resetBusy >>
ghostVars == << lastResize >>
installVars == << table, renderLoop, mh, hpc, hcalls, htramp, hstatus, hpublished, hret,
                  hooksHeld, hfired >>

(***************************************************************************)
(* imgui_wnd_proc: the translation of one message into the renderer's      *)
(* input state, done while the shim holds the renderer lock.               *)
(***************************************************************************)
XButton(w) == IF hiword(w) = XBUTTON1 THEN 3 ELSE 4

SetIo(r, f, v) == [r EXCEPT !.io = [r.io EXCEPT ![f] = v]]

Translate(r, m) ==
    LET u == m.umsg
        w == m.wparam
    IN  CASE u \in {"WM_KEYDOWN", "WM_SYSKEYDOWN"} ->
                IF Below(w, KeyTableSize) THEN SetIo(r, "keys_down", r.io.keys_down \cup {w.lo}) ELSE r
          [] u \in {"WM_KEYUP", "WM_SYSKEYUP"} ->
                IF Below(w, KeyTableSize) THEN SetIo(r, "keys_down", r.io.keys_down \ {w.lo}) ELSE r
          [] u \in {"WM_LBUTTONDOWN", "WM_LBUTTONDBLCLK"} ->
                SetIo(r, "mouse_down", r.io.mouse_down \cup {0})
          [] u \in {"WM_RBUTTONDOWN", "WM_RBUTTONDBLCLK"} ->
                SetIo(r, "mouse_down", r.io.mouse_down \cup {1})
          [] u \in {"WM_MBUTTONDOWN", "WM_MBUTTONDBLCLK"} ->
                SetIo(r, "mouse_down", r.io.mouse_down \cup {2})
          [] u \in {"WM_XBUTTONDOWN", "WM_XBUTTONDBLCLK"} ->
                SetIo(r, "mouse_down", r.io.mouse_down \cup {XButton(w)})
          [] u = "WM_LBUTTONUP" -> SetIo(r, "mouse_down", r.io.mouse_down \ {0})
          [] u = "WM_RBUTTONUP" -> SetIo(r, "mouse_down", r.io.mouse_down \ {1})
          [] u = "WM_MBUTTONUP" -> SetIo(r, "mouse_down", r.io.mouse_down \ {2})
          [] u = "WM_XBUTTONUP" -> SetIo(r, "mouse_down", r.io.mouse_down \ {XButton(w)})
          [] u = "WM_MOUSEWHEEL" ->
                SetIo(r, "mouse_wheel", r.io.mouse_wheel + GET_WHEEL_DELTA_WPARAM(w))
          [] u = "WM_MOUSEHWHEEL" ->
                SetIo(r, "mouse_wheel_h", r.io.mouse_wheel_h + GET_WHEEL_DELTA_WPARAM(w))
          [] u = "WM_CHAR" -> SetIo(r, "chars", Append(r.io.chars, w.lo % 256))
          [] u = "WM_ACTIVATE" ->
                [r EXCEPT !.flags = [focused |-> (loword(w) # WA_INACTIVE)]]
          [] OTHER -> r

\* the message kinds after which the shim returns LRESULT(1) at once
ReturnsEarly(m) == m.umsg = "WM_ACTIVATE"

\* the procedure the shim falls back to when it has no renderer or no lock
FallbackProc == "DefWindowProcW"

Abs(x) == IF x < 0 THEN 0 - x ELSE x

\* the io of renderer r stays within the model's bounds after message m
WithinBounds(r, m) ==
    LET t == Translate(r, m)
    IN  /\ Abs(t.io.mouse_wheel) <= MaxWheel * WHEEL_DELTA
        /\ Abs(t.io.mouse_wheel_h) <= MaxWheel * WHEEL_DELTA
        /\ Len(t.io.chars) <= MaxChars

(***************************************************************************)
(* The state after hook_imgui: the trampolines are recorded, no renderer   *)
(* exists, the host window has its own procedure.                          *)
(***************************************************************************)
Targets == {"present", "ecl", "resize"}

NoTable == [set |-> FALSE]
\* TRAMPOLINE holding the three pointers hook_imgui passes to get_or_init
TableOf(tr) == [set |-> TRUE, present |-> tr["present"], ecl |-> tr["ecl"],
                resize |-> tr["resize"]]

\* one hook_imgui call with three successful MH_CreateHook calls, and the hooks
\* it returned enabled
Installed ==
    /\ trampoline = TRUE
    /\ table = TableOf([i \in Targets |-> "orig"])
    /\ renderLoop = 1
    /\ mh = [i \in Targets |-> "enabled"]
    /\ hpc = "idle"
    /\ hcalls = 1
    /\ htramp = [i \in Targets |-> "orig"]
    /\ hstatus = [i \in Targets |-> "MH_OK"]
    /\ hpublished = TRUE
    /\ hret = "hooks"
    /\ hooksHeld = TRUE
    /\ hfired = "none"

\* the process before any hook_imgui call
NotInstalled ==
    /\ trampoline = FALSE
    /\ table = NoTable
    /\ renderLoop = 0
    /\ mh = [i \in Targets |-> "none"]
    /\ hpc = "idle"
    /\ hcalls = 0
    /\ htramp = [i \in Targets |-> "null"]
    /\ hstatus = [i \in Targets |-> "none"]
    /\ hpublished = FALSE
    /\ hret = "none"
    /\ hooksHeld = FALSE
    /\ hfired = "none"

RendererInitOn(T) ==
    /\ slot = NoRenderer
    /\ lock = "free"
    /\ guard = FALSE
    /\ curWndProc = "host"
    /\ bufferCount \in BufferCounts
    /\ backIdx = 0
    /\ pending = << >>
    /\ pc = [t \in T |-> "idle"]
    /\ call = [t \in T |-> NoCall]
    /\ nested = [t \in T |-> NoCall]
    /\ loc = [t \in T |-> NoLocal]
    /\ flog = [t \in T |-> << >>]
    /\ resetBusy = [t \in T |-> FALSE]
    /\ wpc = "idle"
    /\ wmsg = NoMsg
    /\ wpath = "none"
    /\ wproc = "none"
    /\ wfwd = [to |-> "none", msg |-> NoMsg]
    /\ wstale = "no"
    /\ crashed = FALSE
    /\ lastResize = NoResize

RendererInit == RendererInitOn(DetourThreads)

HookInit == RendererInit /\ Installed

Goto(t, l) == pc' = [pc EXCEPT ![t] = l]
Log(t, es) == flog' = [flog EXCEPT ![t] = flog[t] \o es]

\* the trampoline of the call in progress is invoked with arguments a and returns s
Forwarded(c, a, s) == [c EXCEPT !.ntramp = c.ntramp + 1, !.targs = a, !.tret = s]

(***************************************************************************)
(* imgui_dxgi_swap_chain_present_impl                                      *)
(***************************************************************************)
PresentInvoke(t, sync, flags) ==
    /\ ~crashed /\ trampoline /\ pc[t] = "idle"
    /\ Goto(t, "p_get")
    /\ call' = [call EXCEPT ![t] =
                   NewCall("present", [sync_interval |-> sync, flags |-> flags])]
    /\ flog' = [flog EXCEPT ![t] = << >>]
    /\ resetBusy' = [resetBusy EXCEPT ![t] = FALSE]
    /\ loc' = [loc EXCEPT ![t] = NoLocal]
    /\ UNCHANGED << slot, lock, guard, trampoline, hostVars, nested, pumpVars, crashed,
                    dcompVars, ghostVars, installVars >>

\* IMGUI_RENDERER.get_or_init(..): the cell is full, or ImguiRenderer::new runs
PresentGetOrInit(t) ==
    /\ ~crashed /\ pc[t] = "p_get"
    /\ Goto(t, IF slot.exists THEN "p_lock" ELSE "p_new")
    /\ UNCHANGED << slot, lock, guard, trampoline, hostVars, call, nested, loc, flog,
                    resetBusy, pumpVars, crashed, dcompVars, ghostVars, installVars >>

\* ImguiRenderer::new, `let desc = swap_chain.GetDesc().unwrap()`: the buffer count
\* the swap chain has at this moment
PresentDesc(t) ==
    /\ ~crashed /\ pc[t] = "p_new"
    /\ loc' = [loc EXCEPT ![t].desc = bufferCount]
    /\ Goto(t, "p_build")
    /\ UNCHANGED << slot, lock, guard, trampoline, hostVars, call, nested, flog, resetBusy,
                    pumpVars, crashed, dcompVars, ghostVars, installVars >>

\* ImguiRenderer::new after GetDesc: the ring for desc.BufferCount buffers (a
\* GetBuffer(i).unwrap() for a buffer the swap chain no longer has panics),
\* SetWindowLongPtrA installing the shim and returning the previous procedure,
\* then initialize
PresentNew(t) ==
    /\ ~crashed /\ pc[t] = "p_build"
    /\ IF loc[t].desc > bufferCount
       THEN /\ crashed' = TRUE
            /\ UNCHANGED << loc, curWndProc, flog, pc >>
       ELSE /\ loc' = [loc EXCEPT ![t].building = ImguiRenderer_new(loc[t].desc, curWndProc),
                                  ![t].built = TRUE]
            /\ curWndProc' = "shim"
            /\ Log(t, << "new", "initialize" >>)
            /\ Goto(t, "p_store")
            /\ UNCHANGED crashed
    /\ UNCHANGED << slot, lock, guard, trampoline, bufferCount, backIdx, pending, call,
                    nested, resetBusy, pumpVars, dcompVars, ghostVars, installVars >>

\* get_or_init stores Mutex::new(Box::new(renderer)) in the cell
PresentStore(t) ==
    /\ ~crashed /\ pc[t] = "p_store"
    /\ slot' = loc[t].building
    /\ lock' = "free"
    /\ loc' = [loc EXCEPT ![t].building = NoRenderer]
    /\ lastResize' = NoResize
    /\ Goto(t, "p_lock")
    /\ UNCHANGED << guard, trampoline, hostVars, call, nested, flog, resetBusy, pumpVars,
                    crashed, dcompVars, installVars >>

\* renderer.lock(): blocks until the mutex is free. When take() emptied the cell
\* after get_or_init returned its reference, the guard is taken over an empty
\* cell and `.render(..)` goes through the null renderer in it: the process dies
PresentLock(t) ==
    /\ ~crashed /\ pc[t] = "p_lock"
    /\ IF slot.exists
       THEN /\ lock = "free"
            /\ lock' = t
            /\ Goto(t, "p_render")
            /\ UNCHANGED crashed
       ELSE /\ crashed' = TRUE
            /\ UNCHANGED << lock, pc >>
    /\ UNCHANGED << slot, guard, trampoline, hostVars, call, nested, loc, flog, resetBusy,
                    pumpVars, dcompVars, ghostVars, installVars >>

(***************************************************************************)
(* ImguiRenderer::render                                                   *)
(***************************************************************************)
\* GetWindowRect succeeded: display_size is refreshed, and the cursor position
\* when the window is in the foreground and the cursor queries succeed;
\* GetWindowRect failed: io is left as it was
\* a render that writes the rectangle it has, the default one after a failed query
WritesDefaultRect(r, rectOk, cursorOk) ==
    [r EXCEPT !.io = [r.io EXCEPT
        !.display_size = IF rectOk THEN "window" ELSE "zero",
        !.mouse_pos = IF rectOk /\ cursorOk THEN "cursor" ELSE r.io.mouse_pos]]

RenderIo(r, rectOk, cursorOk) ==
    IF rectOk
    THEN [r EXCEPT !.io = [r.io EXCEPT
              !.display_size = "window",
              !.mouse_pos = IF cursorOk THEN "cursor" ELSE r.io.mouse_pos]]
    ELSE r

\* `None => { error!("Null command queue"); return None; }`
\* a render that goes on without a queue
NeverSkips(r) == FALSE

RenderSkips(r) == r.command_queue = "none"

\* what render does with the frame context between new_frame and Close
FrameRecording ==
    << "new_frame", "render_callback", "allocator_reset", "list_reset",
       "barrier_present_to_render_target", "set_render_targets", "set_descriptor_heaps",
       "render_draw_data", "barrier_render_target_to_present", "close" >>

\* render_draw_data's result is not looked at: the reverse barrier and Close
\* follow whatever it reports
\* a recording that stops at a draw error
AbortsOnDrawError(drawOk) ==
    IF drawOk THEN << "barrier_render_target_to_present", "close" >> ELSE << >>

AfterDrawData(drawOk) == << "barrier_render_target_to_present", "close" >>

Recorded(drawOk) ==
    SubSeq(FrameRecording, 1, Len(FrameRecording) - 2) \o AfterDrawData(drawOk)

Range(q) == { q[i] : i \in 1..Len(q) }

\* the renderer a held MutexGuard refers to: the one in the cell, or the one that
\* take() moved out of the cell from under the guard, which stays alive because
\* the resize detour that has it waits for the moved mutex
Moved == CHOOSE r \in { loc[u].taken : u \in DOMAIN loc } : r.exists

Guarded == IF slot.exists THEN slot ELSE Moved

\* a write through the guard, together with the thread's own locals l
SetGuarded(r, l) ==
    IF slot.exists
    THEN slot' = r /\ loc' = l
    ELSE /\ slot' = slot
         /\ loc' = [u \in DOMAIN l |->
                       IF l[u].taken.exists THEN [l[u] EXCEPT !.taken = r] ELSE l[u]]

\* rectOk, cursorOk: what GetWindowRect and the cursor queries answer
PresentRender(t, rectOk, cursorOk) ==
    /\ ~crashed /\ pc[t] = "p_render"
    /\ SetGuarded(RenderIo(Guarded, rectOk, cursorOk),
                  [loc EXCEPT ![t].queueSeen = Guarded.command_queue,
                              ![t].rect = IF rectOk THEN "ok" ELSE "failed"])
    /\ Goto(t, IF RenderSkips(Guarded) THEN "p_unlock" ELSE "p_record")
    /\ UNCHANGED << lock, guard, trampoline, hostVars, call, nested, flog, resetBusy,
                    pumpVars, crashed, dcompVars, ghostVars, installVars >>

\* the flags the render callback is handed: `&self.flags`
\* the flags as they were when the renderer was built
FlagsAtBuild(r) == [focused |-> TRUE]

CallbackFlags(r) == r.flags

\* frame_contexts[GetCurrentBackBufferIndex()], the render callback, and the
\* recording of the command list on that context's allocator
\* drawOk: whether render_draw_data reports Ok
PresentRecord(t, drawOk) ==
    /\ ~crashed /\ pc[t] = "p_record"
    /\ IF backIdx >= Len(Guarded.frame_contexts)
       THEN /\ crashed' = TRUE
            /\ UNCHANGED << pc, loc, flog, resetBusy >>
       ELSE /\ loc' = [loc EXCEPT ![t].idx = backIdx,
                                  ![t].cbFlags = CallbackFlags(Guarded),
                                  ![t].draw = IF drawOk THEN "ok" ELSE "failed"]
            /\ Log(t, Recorded(drawOk))
            /\ resetBusy' = [resetBusy EXCEPT ![t] = backIdx \in Range(pending)]
            /\ Goto(t, "p_submit")
            /\ UNCHANGED crashed
    /\ UNCHANGED << slot, lock, guard, trampoline, hostVars, call, nested, pumpVars,
                    dcompVars, ghostVars, installVars >>

\* command_queue.ExecuteCommandLists(..): the call enters the hooked function
PresentSubmit(t) ==
    /\ ~crashed /\ pc[t] = "p_submit"
    /\ nested' = [nested EXCEPT ![t] =
                     NewCall("ecl", [queue |-> Guarded.command_queue, num |-> 1,
                                     lists |-> "overlay"])]
    /\ Log(t, << "execute_command_lists" >>)
    /\ Goto(t, "e_guard")
    /\ UNCHANGED << slot, lock, guard, trampoline, hostVars, call, loc, resetBusy,
                    pumpVars, crashed, dcompVars, ghostVars, installVars >>

\* the MutexGuard of `renderer.lock().render(..)` is dropped
PresentUnlock(t) ==
    /\ ~crashed /\ pc[t] = "p_unlock"
    /\ lock' = "free"
    /\ Goto(t, "p_tramp")
    /\ UNCHANGED << slot, guard, trampoline, hostVars, call, nested, loc, flog, resetBusy,
                    pumpVars, crashed, dcompVars, ghostVars, installVars >>

\* the arguments the present detour hands to its trampoline
PresentForwardArgs(a) == a

\* trampoline_present(swap_chain, sync_interval, flags): the host's Present, which
\* waits while the GPU is more than MaxPending overlay lists behind
PresentTramp(t) ==
    /\ ~crashed /\ pc[t] = "p_tramp"
    /\ Len(pending) <= MaxPending
    /\ \E s \in Statuses :
          /\ call' = [call EXCEPT ![t] = Forwarded(call[t], PresentForwardArgs(call[t].args), s)]
          /\ backIdx' = IF s = "S_OK" THEN (backIdx + 1) % bufferCount ELSE backIdx
    /\ Log(t, << "present_trampoline" >>)
    /\ Goto(t, "p_ret")
    /\ UNCHANGED << slot, lock, guard, trampoline, curWndProc, bufferCount, pending, nested,
                    loc, resetBusy, pumpVars, crashed, dcompVars, ghostVars, installVars >>

\* what a detour returns to the host: `r`, the trampoline's result
\* a detour that answers success whatever the original answered
AlwaysOk(c) == "S_OK"

DetourResult(c) == c.tret

PresentRet(t) ==
    /\ ~crashed /\ pc[t] = "p_ret"
    /\ call' = [call EXCEPT ![t].ret = DetourResult(call[t])]
    /\ Goto(t, "returned")
    /\ UNCHANGED << slot, lock, guard, trampoline, hostVars, nested, loc, flog, resetBusy,
                    pumpVars, crashed, dcompVars, ghostVars, installVars >>

\* the host has the detour's result and goes on
Return(t) ==
    /\ ~crashed /\ pc[t] = "returned"
    /\ Goto(t, "idle")
    /\ call' = [call EXCEPT ![t] = NoCall]
    /\ loc' = [loc EXCEPT ![t] = NoLocal]
    /\ flog' = [flog EXCEPT ![t] = << >>]
    /\ resetBusy' = [resetBusy EXCEPT ![t] = FALSE]
    /\ UNCHANGED << slot, lock, guard, trampoline, hostVars, nested, pumpVars, crashed,
                    dcompVars, ghostVars, installVars >>

(***************************************************************************)
(* imgui_execute_command_lists_impl, entered by the host or, from render,  *)
(* by the overlay's own submission.                                        *)
(***************************************************************************)
InNested(t) == nested[t].fn = "ecl"
EclCall(t) == IF InNested(t) THEN nested[t] ELSE call[t]
SetEclCall(t, c) ==
    IF InNested(t)
    THEN nested' = [nested EXCEPT ![t] = c] /\ UNCHANGED call
    ELSE call' = [call EXCEPT ![t] = c] /\ UNCHANGED nested

EclInvoke(t, q) ==
    /\ ~crashed /\ trampoline /\ pc[t] = "idle"
    /\ call' = [call EXCEPT ![t] = NewCall("ecl", [queue |-> q, num |-> 1, lists |-> "host"])]
    /\ Goto(t, "e_guard")
    /\ UNCHANGED << slot, lock, guard, trampoline, hostVars, nested, loc, flog, resetBusy,
                    pumpVars, crashed, dcompVars, ghostVars, installVars >>

\* COMMAND_QUEUE_GUARD.get_or_try_init(..): nothing when the guard is set; the
\* closure locks the renderer when one exists and fails (Err) when none does
\* a detour that captures on every invocation that finds a renderer
EclNextUnguarded(g, r) == IF r.exists THEN "e_lock" ELSE "e_tramp"

EclNext(g, r) == IF g THEN "e_tramp" ELSE IF r.exists THEN "e_lock" ELSE "e_tramp"

EclGuard(t) ==
    /\ ~crashed /\ pc[t] = "e_guard"
    /\ Goto(t, EclNext(guard, slot))
    /\ loc' = [loc EXCEPT ![t].eclPath =
                  IF guard THEN "guarded" ELSE IF slot.exists THEN "capture" ELSE "absent"]
    /\ UNCHANGED << slot, lock, guard, trampoline, hostVars, call, nested, flog,
                    resetBusy, pumpVars, crashed, dcompVars, ghostVars, installVars >>

\* renderer.lock() inside the closure; over a cell that take() emptied after
\* get() the write of the queue goes through the null renderer in it
EclLock(t) ==
    /\ ~crashed /\ pc[t] = "e_lock"
    /\ IF slot.exists
       THEN /\ lock = "free"
            /\ lock' = t
            /\ Goto(t, "e_set")
            /\ UNCHANGED crashed
       ELSE /\ crashed' = TRUE
            /\ UNCHANGED << lock, pc >>
    /\ UNCHANGED << slot, guard, trampoline, hostVars, call, nested, loc, flog, resetBusy,
                    pumpVars, dcompVars, ghostVars, installVars >>

\* `.command_queue = Some(cmd_queue.clone())`
Capture(r, q) == [r EXCEPT !.command_queue = q]

\* the queue is recorded and the lock guard, a temporary of the statement,
\* dropped; the closure then returns Ok(())
EclSet(t) ==
    /\ ~crashed /\ pc[t] = "e_set"
    /\ SetGuarded(Capture(Guarded, EclCall(t).args.queue), loc)
    /\ lock' = "free"
    /\ Goto(t, "e_store")
    /\ UNCHANGED << guard, trampoline, hostVars, call, nested, flog, resetBusy, pumpVars,
                    crashed, dcompVars, ghostVars, installVars >>

\* get_or_try_init stores the closure's Ok(()) in COMMAND_QUEUE_GUARD; the
\* store completes the cell whatever became of it since the closure started
EclStore(t) ==
    /\ ~crashed /\ pc[t] = "e_store"
    /\ guard' = TRUE
    /\ Goto(t, "e_tramp")
    /\ UNCHANGED << slot, lock, trampoline, hostVars, call, nested, loc, flog, resetBusy,
                    pumpVars, crashed, dcompVars, ghostVars, installVars >>

\* the arguments the execute-command-lists detour hands to its trampoline
EclForwardArgs(a) == a

\* trampoline(cmd_queue, num_command_lists, command_lists): the real
\* ExecuteCommandLists; an overlay list is queued on the GPU
EclTramp(t) ==
    /\ ~crashed /\ pc[t] = "e_tramp"
    /\ SetEclCall(t, Forwarded(EclCall(t), EclForwardArgs(EclCall(t).args), "void"))
    /\ pending' = IF EclCall(t).args.lists = "overlay"
                  THEN Append(pending, loc[t].idx) ELSE pending
    /\ Goto(t, "e_ret")
    /\ UNCHANGED << slot, lock, guard, trampoline, curWndProc, bufferCount, backIdx, loc,
                    flog, resetBusy, pumpVars, crashed, dcompVars, ghostVars, installVars >>

\* the detour returns: to render when it was entered from there, else to the host
EclRet(t) ==
    /\ ~crashed /\ pc[t] = "e_ret"
    /\ IF InNested(t)
       THEN /\ nested' = [nested EXCEPT ![t] = NoCall]
            /\ Goto(t, "p_unlock")
            /\ UNCHANGED call
       ELSE /\ call' = [call EXCEPT ![t].ret = "void"]
            /\ Goto(t, "returned")
            /\ UNCHANGED nested
    /\ UNCHANGED << slot, lock, guard, trampoline, hostVars, loc, flog, resetBusy,
                    pumpVars, crashed, dcompVars, ghostVars, installVars >>

(***************************************************************************)
(* imgui_resize_buffers_impl and ImguiRenderer::cleanup                    *)
(***************************************************************************)
ResizeArgs(n) == [buffer_count |-> n, width |-> 800, height |-> 600,
                  new_format |-> "DXGI_FORMAT_UNKNOWN", flags |-> 0]

ResizeInvoke(t, n) ==
    /\ ~crashed /\ trampoline /\ pc[t] = "idle"
    /\ call' = [call EXCEPT ![t] = NewCall("resize", ResizeArgs(n))]
    /\ Goto(t, "rz_take")
    /\ UNCHANGED << slot, lock, guard, trampoline, hostVars, nested, loc, flog, resetBusy,
                    pumpVars, crashed, dcompVars, ghostVars, installVars >>

\* what IMGUI_RENDERER.take() leaves in the cell
AfterTake(r) == NoRenderer

\* `if let Some(mutex) = IMGUI_RENDERER.take()`: the mutex is moved out of the cell
\* as it is, its lock byte included, and the cell is left empty. A shim that holds
\* the guard at this moment keeps pointing into the emptied cell.
ResizeTake(t) ==
    /\ ~crashed /\ pc[t] = "rz_take"
    /\ IF slot.exists
       THEN /\ loc' = [loc EXCEPT ![t].taken = slot,
                                  ![t].takenLocked = (lock # "free"),
                                  ![t].hadRenderer = TRUE,
                                  ![t].savedProc = slot.wnd_proc,
                                  ![t].prevRing = Len(slot.frame_contexts)]
            /\ slot' = AfterTake(slot)
            /\ lock' = "free"
            /\ wstale' = IF wpc = "w_translate" THEN slot.wnd_proc ELSE wstale
            /\ Goto(t, IF AfterTake(slot).exists THEN "rz_guard" ELSE "rz_lock")
       ELSE /\ Goto(t, "rz_guard")
            /\ UNCHANGED << slot, lock, loc, wstale >>
    /\ UNCHANGED << guard, trampoline, hostVars, call, nested, flog, resetBusy,
                    wpc, wmsg, wpath, wproc, wfwd, crashed, dcompVars, ghostVars, installVars >>

\* mutex.lock() on the moved mutex: blocks while its lock byte says locked
ResizeLock(t) ==
    /\ ~crashed /\ pc[t] = "rz_lock"
    /\ ~loc[t].takenLocked
    /\ Goto(t, "rz_cleanup")
    /\ UNCHANGED << slot, lock, guard, trampoline, hostVars, call, nested, loc, flog,
                    resetBusy, pumpVars, crashed, dcompVars, ghostVars, installVars >>

\* cleanup: SetWindowLongPtrA(desc.OutputWindow, GWLP_WNDPROC, self.wnd_proc)
\* a cleanup that leaves the window procedure as it finds it
CleanupKeepsProc(r, cur) == cur

CleanupProc(r, cur) == r.wnd_proc

\* cleanup runs, then guard and mutex go out of scope: the renderer, its ring and
\* the GPU objects are released (whatever the GPU still had queued goes with them)
ResizeCleanup(t) ==
    /\ ~crashed /\ pc[t] = "rz_cleanup"
    /\ curWndProc' = CleanupProc(loc[t].taken, curWndProc)
    /\ loc' = [loc EXCEPT ![t].taken = NoRenderer,
                          ![t].destroyedInFlight = Range(pending)]
    /\ pending' = << >>
    /\ Goto(t, "rz_guard")
    /\ UNCHANGED << slot, lock, guard, trampoline, bufferCount, backIdx, call, nested,
                    flog, resetBusy, pumpVars, crashed, dcompVars, ghostVars, installVars >>

\* COMMAND_QUEUE_GUARD.take()
ResizeGuard(t) ==
    /\ ~crashed /\ pc[t] = "rz_guard"
    /\ guard' = FALSE
    /\ Goto(t, "rz_tramp")
    /\ UNCHANGED << slot, lock, trampoline, hostVars, call, nested, loc, flog, resetBusy,
                    pumpVars, crashed, dcompVars, ghostVars, installVars >>

\* the arguments the resize detour hands to its trampoline
\* a forward that hands width and height over in each other's place
ForwardsSwappedSize(a) == [a EXCEPT !.width = a.height, !.height = a.width]

ResizeForwardArgs(a) == a

\* trampoline(swap_chain, buffer_count, width, height, new_format, flags): the
\* host's ResizeBuffers; on success the swap chain has buffer_count buffers
\* a renderer, and with it a ring of back_buffer references, is alive
BackBufferRefs ==
    slot.exists \/ \E u \in DOMAIN loc : loc[u].building.exists \/ loc[u].taken.exists

\* the host's ResizeBuffers does not succeed while back buffers are referenced
ResizeStatuses == IF BackBufferRefs THEN Statuses \ {"S_OK"} ELSE Statuses

ResizeTramp(t) ==
    /\ ~crashed /\ pc[t] = "rz_tramp"
    /\ \E s \in ResizeStatuses :
          LET a == ResizeForwardArgs(call[t].args)
          IN  /\ call' = [call EXCEPT ![t] = Forwarded(call[t], a, s)]
              /\ bufferCount' = IF s = "S_OK" THEN a.buffer_count ELSE bufferCount
              /\ backIdx' = IF s = "S_OK" THEN 0 ELSE backIdx
              /\ lastResize' = [count |-> a.buffer_count, status |-> s,
                                prev |-> loc[t].prevRing]
    /\ Goto(t, "rz_ret")
    /\ UNCHANGED << slot, lock, guard, trampoline, curWndProc, pending, nested, loc, flog,
                    resetBusy, pumpVars, crashed, dcompVars, installVars >>

ResizeRet(t) ==
    /\ ~crashed /\ pc[t] = "rz_ret"
    /\ call' = [call EXCEPT ![t].ret = DetourResult(call[t])]
    /\ Goto(t, "returned")
    /\ UNCHANGED << slot, lock, guard, trampoline, hostVars, nested, loc, flog, resetBusy,
                    pumpVars, crashed, dcompVars, ghostVars, installVars >>

\* the GPU finishes the oldest overlay command list
GpuRetire ==
    /\ ~crashed /\ pending # << >>
    /\ pending' = Tail(pending)
    /\ UNCHANGED << slot, lock, guard, trampoline, curWndProc, bufferCount, backIdx,
                    threadVars, pumpVars, crashed, dcompVars, ghostVars, installVars >>

(***************************************************************************)
(* imgui_wnd_proc on the message-pump thread                               *)
(***************************************************************************)
NoFwd == [to |-> "none", msg |-> NoMsg]

\* the window gets a message while the shim is its procedure
ShimInvoke(m) ==
    /\ ~crashed /\ wpc = "idle" /\ curWndProc = "shim"
    /\ slot.exists => WithinBounds(slot, m)
    /\ wpc' = "w_get"
    /\ wmsg' = m
    /\ wpath' = "none"
    /\ wproc' = "none"
    /\ wfwd' = NoFwd
    /\ UNCHANGED << slot, lock, guard, trampoline, hostVars, threadVars, wstale, crashed,
                    dcompVars, ghostVars, installVars >>

\* IMGUI_RENDERER.get()
ShimGet ==
    /\ ~crashed /\ wpc = "w_get"
    /\ IF slot.exists
       THEN wpc' = "w_try" /\ UNCHANGED wpath
       ELSE wpc' = "w_def" /\ wpath' = "absent"
    /\ UNCHANGED << slot, lock, guard, trampoline, hostVars, threadVars, wmsg, wproc, wfwd,
                    wstale, crashed, dcompVars, ghostVars, installVars >>

\* whether the shim's attempt gets the lock: Mutex::try_lock never waits
TryLockSucceeds(l) == l = "free"
\* whether the shim's attempt can be made at all
\* a blocking lock() in place of try_lock()
LockWaits(l) == l = "free"

TryLockReturns(l) == TRUE

\* the window procedure of the renderer that take() moved out of the cell: the
\* orphan's while the resize detour still has it, afterwards the one its cleanup
\* put back
OrphanProc ==
    IF \E t \in DOMAIN loc : loc[t].taken.exists
    THEN (CHOOSE r \in { loc[t].taken : t \in DOMAIN loc } : r.exists).wnd_proc
    ELSE curWndProc

\* .map(Mutex::try_lock) on the reference get() returned. When take() emptied the
\* cell in between, the reference points at an empty cell: the attempt reads
\* whatever bytes are there, and the process dies on the null renderer, or the
\* lock byte reads as held, or it reads as free and the shim goes on with a guard
\* over the bytes the renderer was moved out of.
ShimTryLock ==
    /\ ~crashed /\ wpc = "w_try"
    /\ TryLockReturns(lock)
    /\ IF ~slot.exists
       THEN /\ \/ crashed' = TRUE /\ UNCHANGED << wpc, wpath, wstale >>
               \/ wpc' = "w_def" /\ wpath' = "stale" /\ UNCHANGED << crashed, wstale >>
               \/ /\ wpc' = "w_translate" /\ wpath' = "locked"
                  /\ wstale' = OrphanProc
                  /\ UNCHANGED crashed
            /\ UNCHANGED lock
       ELSE IF TryLockSucceeds(lock)
       THEN /\ lock' = "pump" /\ wpc' = "w_translate" /\ wpath' = "locked"
            /\ UNCHANGED << crashed, wstale >>
       ELSE wpc' = "w_def" /\ wpath' = "contended" /\ UNCHANGED << lock, crashed, wstale >>
    /\ UNCHANGED << slot, guard, trampoline, hostVars, threadVars, wmsg, wproc, wfwd,
                    dcompVars, ghostVars, installVars >>

\* the lock after `drop(imgui_renderer)`, or after the guard goes out of scope at
\* `return LRESULT(1)`
\* a shim that keeps its guard over the call of the saved procedure
KeepsGuard(l) == l

AfterDrop(l) == "free"

\* where the shim goes after the translation: back to its caller for the kinds it
\* answers itself, else on to the saved procedure
AfterTranslate(m) == IF ReturnsEarly(m) THEN "w_ret" ELSE "w_call"

\* the match on umsg under the guard, `let wnd_proc = imgui_renderer.wnd_proc`,
\* and drop(imgui_renderer). Under a guard whose cell take() emptied, the writes
\* land in the moved renderer or the process dies on the emptied cell.
ShimTranslate ==
    /\ ~crashed /\ wpc = "w_translate"
    /\ IF wstale = "no"
       THEN /\ slot' = Translate(slot, wmsg)
            /\ wproc' = slot.wnd_proc
            /\ wpc' = AfterTranslate(wmsg)
            /\ UNCHANGED << loc, crashed >>
       ELSE \/ /\ crashed' = TRUE
               /\ UNCHANGED << slot, loc, wproc, wpc >>
            \/ /\ loc' = [t \in DOMAIN loc |->
                            IF loc[t].taken.exists
                            THEN [loc[t] EXCEPT !.taken = Translate(loc[t].taken, wmsg)]
                            ELSE loc[t]]
               /\ wproc' = wstale
               /\ wpc' = AfterTranslate(wmsg)
               /\ UNCHANGED << slot, crashed >>
    /\ lock' = IF crashed' THEN lock ELSE AfterDrop(lock)
    /\ wstale' = IF crashed' THEN wstale ELSE "no"
    /\ UNCHANGED << guard, trampoline, hostVars, pc, call, nested, flog, resetBusy,
                    wmsg, wpath, wfwd, dcompVars, ghostVars, installVars >>

\* CallWindowProcW(Some(wnd_proc), hwnd, umsg, wparam, lparam)
ShimCall ==
    /\ ~crashed /\ wpc = "w_call"
    /\ IF wproc = "shim"
       THEN wpc' = "w_get" /\ UNCHANGED wfwd
       ELSE wpc' = "w_ret" /\ wfwd' = [to |-> wproc, msg |-> wmsg]
    /\ UNCHANGED << slot, lock, guard, trampoline, hostVars, threadVars, wmsg, wpath,
                    wproc, wstale, crashed, dcompVars, ghostVars, installVars >>

\* DefWindowProcW(hwnd, umsg, wparam, lparam)
ShimDef ==
    /\ ~crashed /\ wpc = "w_def"
    /\ wfwd' = [to |-> FallbackProc, msg |-> wmsg]
    /\ wpc' = "w_ret"
    /\ UNCHANGED << slot, lock, guard, trampoline, hostVars, threadVars, wmsg, wpath,
                    wproc, wstale, crashed, dcompVars, ghostVars, installVars >>

\* the shim returns to the message pump
ShimRet ==
    /\ ~crashed /\ wpc = "w_ret"
    /\ wpc' = "idle"
    /\ wmsg' = NoMsg
    /\ wpath' = "none"
    /\ wproc' = "none"
    /\ wfwd' = NoFwd
    /\ UNCHANGED << slot, lock, guard, trampoline, hostVars, threadVars, wstale, crashed,
                    dcompVars, ghostVars, installVars >>

ShimStep == ShimGet \/ ShimTryLock \/ ShimTranslate \/ ShimCall \/ ShimDef \/ ShimRet

(***************************************************************************)
(* dcomp.rs: the frame ring with one fence per frame context. Each loop is *)
(* a thread of the process running Dcomp::render on its own Dcomp; the     *)
(* counter FENCE_MAX is a static of the process, shared by all of them.    *)
(***************************************************************************)
DLoops == {"main", "other"}

\* FrameContext { .., fence: CreateFence(0, ..), fence_val: 0, .. }; completed is
\* what fence.GetCompletedValue() returns
NewDContext == [fence_val |-> 0, completed |-> 0]

DRing == [i \in 1..DcompBufferCount |-> NewDContext]

DcompInit ==
    /\ dfence = 0
    /\ dctx = [l \in DLoops |-> DRing]
    /\ dpc = [l \in DLoops |-> "start"]
    /\ didx = [l \in DLoops |-> 0]
    /\ dqueue = [l \in DLoops |-> << >>]
    /\ dhanded = << >>
    /\ dtmp = [l \in DLoops |-> 0]
    /\ dbusy = [l \in DLoops |-> FALSE]

DCur(l) == dctx[l][didx[l] + 1]
DGoto(l, p) == dpc' = [dpc EXCEPT ![l] = p]

\* Dcomp::render starts: GetCurrentBackBufferIndex() and frame_contexts[idx]
DStart(l) ==
    /\ dpc[l] = "start"
    /\ dfence < MaxFence
    /\ dbusy' = [dbusy EXCEPT ![l] = FALSE]
    /\ DGoto(l, "wait")
    /\ UNCHANGED << hookVars, dfence, dctx, didx, dqueue, dhanded, dtmp >>

\* wait_fence returns at once unless GetCompletedValue() < fence_val, and then
\* only when the fence has reached fence_val
\* a wait that is over only once the fence has passed fence_val
WaitUntilAbove(c) == c.completed > c.fence_val

WaitOver(c) == ~(c.completed < c.fence_val)

DWait(l) ==
    /\ dpc[l] = "wait"
    /\ WaitOver(DCur(l))
    /\ DGoto(l, "incr")
    /\ UNCHANGED << hookVars, dfence, dctx, didx, dqueue, dhanded, dtmp, dbusy >>

\* FENCE_MAX.fetch_add(1, SeqCst): the counter after the call
\* a load in place of the fetch_add
LoadOnly(c) == c

FetchAdd(c) == c + 1

\* incr, first half: the atomic fetch_add returns the previous value
DIncr(l) ==
    /\ dpc[l] = "incr"
    /\ dtmp' = [dtmp EXCEPT ![l] = dfence]
    /\ dfence' = FetchAdd(dfence)
    /\ dhanded' = Append(dhanded, dfence)
    /\ DGoto(l, "store")
    /\ UNCHANGED << hookVars, dctx, didx, dqueue, dbusy >>

\* incr, second half: self.fence_val = <the value fetched>
DStore(l) ==
    /\ dpc[l] = "store"
    /\ dctx' = [dctx EXCEPT ![l][didx[l] + 1].fence_val = dtmp[l]]
    /\ DGoto(l, "reset")
    /\ UNCHANGED << hookVars, dfence, didx, dqueue, dhanded, dtmp, dbusy >>

\* a command list recorded on context i is still queued on the GPU
DInFlight(q, i) == \E k \in 1..Len(q) : q[k].kind = "list" /\ q[k].ctx = i

\* command_allocator.Reset() and the recording of the frame
DReset(l) ==
    /\ dpc[l] = "reset"
    /\ dbusy' = [dbusy EXCEPT ![l] = DInFlight(dqueue[l], didx[l])]
    /\ DGoto(l, "submit")
    /\ UNCHANGED << hookVars, dfence, dctx, didx, dqueue, dhanded, dtmp >>

\* command_queue.ExecuteCommandLists(..)
DSubmit(l) ==
    /\ dpc[l] = "submit"
    /\ dqueue' = [dqueue EXCEPT ![l] =
                     Append(dqueue[l], [kind |-> "list", ctx |-> didx[l], val |-> 0])]
    /\ DGoto(l, "signal")
    /\ UNCHANGED << hookVars, dfence, dctx, didx, dhanded, dtmp, dbusy >>

\* command_queue.Signal(&frame_context.fence, frame_context.fence_val)
DSignal(l) ==
    /\ dpc[l] = "signal"
    /\ dqueue' = [dqueue EXCEPT ![l] =
                     Append(dqueue[l], [kind |-> "signal", ctx |-> didx[l],
                                        val |-> DCur(l).fence_val])]
    /\ DGoto(l, "present")
    /\ UNCHANGED << hookVars, dfence, dctx, didx, dhanded, dtmp, dbusy >>

\* swap_chain.Present(1, 0): the swap chain hands out the next back buffer
DPresent(l) ==
    /\ dpc[l] = "present"
    /\ \E i \in 0..(DcompBufferCount - 1) : didx' = [didx EXCEPT ![l] = i]
    /\ DGoto(l, "start")
    /\ UNCHANGED << hookVars, dfence, dctx, dqueue, dhanded, dtmp, dbusy >>

\* the GPU takes the next entry of a queue: a list is executed, a signal sets
\* the fence to its value
DGpu(l) ==
    /\ dqueue[l] # << >>
    /\ LET h == Head(dqueue[l])
       IN  dctx' = IF h.kind = "signal"
                   THEN [dctx EXCEPT ![l][h.ctx + 1].completed = h.val]
                   ELSE dctx
    /\ dqueue' = [dqueue EXCEPT ![l] = Tail(dqueue[l])]
    /\ UNCHANGED << hookVars, dfence, dpc, didx, dhanded, dtmp, dbusy >>

DcompNext ==
    \/ \E l \in DLoops : DStart(l)
    \/ \E l \in DLoops : DWait(l)
    \/ \E l \in DLoops : DIncr(l)
    \/ \E l \in DLoops : DStore(l)
    \/ \E l \in DLoops : DReset(l)
    \/ \E l \in DLoops : DSubmit(l)
    \/ \E l \in DLoops : DSignal(l)
    \/ \E l \in DLoops : DPresent(l)
    \/ \E l \in DLoops : DGpu(l)

(***************************************************************************)
(* hook_imgui, the enabling of the hooks it returns, and the detours as    *)
(* MinHook dispatches them.                                                *)
(***************************************************************************)
rendererVars == << slot, lock, guard, curWndProc, bufferCount, backIdx, pending,
                   threadVars, pumpVars, crashed, lastResize >>

CreateOrder == << "present", "ecl", "resize" >>
CreatePc(k) == IF k <= Len(CreateOrder) THEN "create_" \o CreateOrder[k] ELSE "render_loop"

\* the statuses MH_CreateHook can return for a target in MinHook state st
CreateStatuses(st) ==
    IF st = "none" THEN {"MH_OK", "MH_ERROR_MEMORY_ALLOC"} ELSE {"MH_ERROR_ALREADY_CREATED"}

HookImguiInvoke ==
    /\ hpc = "idle" /\ hcalls < MaxInstalls
    /\ hcalls' = hcalls + 1
    /\ htramp' = [i \in Targets |-> "null"]
    /\ hstatus' = [i \in Targets |-> "none"]
    /\ hpublished' = FALSE
    /\ hret' = "none"
    /\ hpc' = CreatePc(1)
    /\ UNCHANGED << rendererVars, trampoline, table, renderLoop, mh, hooksHeld, hfired,
                    dcompVars >>

\* MH_CreateHook(target, detour, &mut trampoline): the status is only traced
HookCreate(k) ==
    /\ hpc = CreatePc(k)
    /\ LET i == CreateOrder[k]
       IN \E st \in CreateStatuses(mh[i]) :
             /\ hstatus' = [hstatus EXCEPT ![i] = st]
             /\ mh' = IF st = "MH_OK" THEN [mh EXCEPT ![i] = "created"] ELSE mh
             /\ htramp' = IF st = "MH_OK" THEN [htramp EXCEPT ![i] = "orig"] ELSE htramp
    /\ hpc' = CreatePc(k + 1)
    /\ UNCHANGED << rendererVars, trampoline, table, renderLoop, hcalls, hpublished, hret,
                    hooksHeld, hfired, dcompVars >>

\* IMGUI_RENDER_LOOP.get_or_init(|| Box::new(t))
HookRenderLoop ==
    /\ hpc = "render_loop"
    /\ renderLoop' = IF renderLoop = 0 THEN hcalls ELSE renderLoop
    /\ hpc' = "table"
    /\ UNCHANGED << rendererVars, trampoline, table, mh, hcalls, htramp, hstatus,
                    hpublished, hret, hooksHeld, hfired, dcompVars >>

\* whether hook_imgui goes on to publish and return after the statuses st
InstallGoesOn(st) == TRUE

\* TRAMPOLINE.get_or_init(|| (transmute(trampoline_dscp), ..)): sets the cell when
\* it is empty, whatever the three locals hold
HookPublish ==
    /\ hpc = "table" /\ InstallGoesOn(hstatus)
    /\ table' = IF table.set THEN table ELSE TableOf(htramp)
    /\ trampoline' = TRUE
    /\ hpublished' = ~table.set
    /\ hpc' = "ret"
    /\ UNCHANGED << rendererVars, renderLoop, mh, hcalls, htramp, hstatus, hret,
                    hooksHeld, hfired, dcompVars >>

\* the array of three mh::Hook records
HookReturn ==
    /\ hpc = "ret"
    /\ hret' = "hooks"
    /\ hooksHeld' = TRUE
    /\ hpc' = "idle"
    /\ UNCHANGED << rendererVars, trampoline, table, renderLoop, mh, hcalls, htramp,
                    hstatus, hpublished, hfired, dcompVars >>

\* hooks.hook(): the caller enables the hooks of the records it was given
HookEnable(i) ==
    /\ hooksHeld /\ mh[i] = "created"
    /\ mh' = [mh EXCEPT ![i] = "enabled"]
    /\ UNCHANGED << rendererVars, trampoline, table, renderLoop, hpc, hcalls, htramp,
                    hstatus, hpublished, hret, hooksHeld, hfired, dcompVars >>

\* how a detour finds its trampoline: TRAMPOLINE.get().expect(..) and the call
\* through its entry of the tuple
TrampolineFound(tb, i) ==
    IF ~tb.set THEN "expect_panic" ELSE IF tb[i] = "null" THEN "null_call" ELSE "forwarded"

\* the host calls a hooked function: MinHook enters the detour
DetourFire(i) ==
    /\ mh[i] = "enabled"
    /\ hfired' = TrampolineFound(table, i)
    /\ UNCHANGED << rendererVars, trampoline, table, renderLoop, mh, hpc, hcalls, htramp,
                    hstatus, hpublished, hret, hooksHeld, dcompVars >>

InstallInit == RendererInit /\ NotInstalled /\ DcompInit

InstallNext ==
    \/ HookImguiInvoke
    \/ \E k \in 1..Len(CreateOrder) : HookCreate(k)
    \/ HookRenderLoop
    \/ HookPublish
    \/ HookReturn
    \/ \E i \in Targets : HookEnable(i)
    \/ \E i \in Targets : DetourFire(i)

(***************************************************************************)
(* The hook's next-state relation: the host's render thread calls present, *)
(* execute-command-lists and resize one after another, the message pump    *)
(* runs the shim, the GPU retires work.                                    *)
(***************************************************************************)
SyncIntervals == {0, 1}

PresentFlags == {0}

Init == HookInit /\ DcompInit

Next ==
    \/ \E t \in DetourThreads, s \in SyncIntervals, f \in PresentFlags : PresentInvoke(t, s, f)
    \/ \E t \in DetourThreads : PresentGetOrInit(t)
    \/ \E t \in DetourThreads : PresentDesc(t)
    \/ \E t \in DetourThreads : PresentNew(t)
    \/ \E t \in DetourThreads : PresentStore(t)
    \/ \E t \in DetourThreads : PresentLock(t)
    \/ \E t \in DetourThreads, rectOk \in BOOLEAN, cursorOk \in CursorQueries :
          PresentRender(t, rectOk, cursorOk)
    \/ \E t \in DetourThreads, drawOk \in BOOLEAN : PresentRecord(t, drawOk)
    \/ \E t \in DetourThreads : PresentSubmit(t)
    \/ \E t \in DetourThreads : PresentUnlock(t)
    \/ \E t \in DetourThreads : PresentTramp(t)
    \/ \E t \in DetourThreads : PresentRet(t)
    \/ \E t \in DetourThreads : Return(t)
    \/ \E t \in DetourThreads, q \in Queues : EclInvoke(t, q)
    \/ \E t \in DetourThreads : EclGuard(t)
    \/ \E t \in DetourThreads : EclLock(t)
    \/ \E t \in DetourThreads : EclSet(t)
    \/ \E t \in DetourThreads : EclStore(t)
    \/ \E t \in DetourThreads : EclTramp(t)
    \/ \E t \in DetourThreads : EclRet(t)
    \/ \E t \in DetourThreads, n \in BufferCounts : ResizeInvoke(t, n)
    \/ \E t \in DetourThreads : ResizeTake(t)
    \/ \E t \in DetourThreads : ResizeLock(t)
    \/ \E t \in DetourThreads : ResizeCleanup(t)
    \/ \E t \in DetourThreads : ResizeGuard(t)
    \/ \E t \in DetourThreads : ResizeTramp(t)
    \/ \E t \in DetourThreads : ResizeRet(t)
    \/ GpuRetire
    \/ \E m \in Messages : ShimInvoke(m)
    \/ ShimGet
    \/ ShimTryLock
    \/ ShimTranslate
    \/ ShimCall
    \/ ShimDef
    \/ ShimRet

Spec == Init /\ [][Next]_vars

\* Present and ExecuteCommandLists on the render thread, ResizeBuffers on the
\* window's thread, with no order between the two threads; one queue, and frames
\* whose queries and draw-data translation succeed
RaceInit == RendererInitOn(HostThreads) /\ Installed /\ DcompInit

RaceNext ==
    \/ PresentInvoke("render", 1, 0)
    \/ PresentGetOrInit("render")
    \/ PresentDesc("render")
    \/ PresentNew("render")
    \/ PresentStore("render")
    \/ PresentLock("render")
    \/ PresentRender("render", TRUE, TRUE)
    \/ PresentRecord("render", TRUE)
    \/ PresentSubmit("render")
    \/ PresentUnlock("render")
    \/ PresentTramp("render")
    \/ PresentRet("render")
    \/ EclInvoke("render", "q1")
    \/ EclGuard("render")
    \/ EclLock("render")
    \/ EclSet("render")
    \/ EclStore("render")
    \/ EclTramp("render")
    \/ EclRet("render")
    \/ \E n \in BufferCounts : ResizeInvoke("window", n)
    \/ ResizeTake("window")
    \/ ResizeLock("window")
    \/ ResizeCleanup("window")
    \/ ResizeGuard("window")
    \/ ResizeTramp("window")
    \/ ResizeRet("window")
    \/ \E t \in HostThreads : Return(t)
    \/ GpuRetire

RaceSpec == RaceInit /\ [][RaceNext]_vars

DcompSpec == Init /\ [][DcompNext]_vars

\* the render loops keep running and the GPU keeps executing what is queued
DLoopStep(l) ==
    \/ DWait(l) \/ DIncr(l) \/ DStore(l) \/ DReset(l) \/ DSubmit(l) \/ DSignal(l)
    \/ DPresent(l)

DcompFairSpec ==
    /\ Init /\ [][DcompNext]_vars
    /\ \A l \in DLoops : WF_vars(DLoopStep(l)) /\ WF_vars(DGpu(l))

InstallSpec == InstallInit /\ [][InstallNext]_vars

(***************************************************************************)
(* Properties of the resize path                                           *)
(***************************************************************************)

\* C1: when the resize detour runs while a renderer exists, by the time it
\* reaches the original resize routine the renderer slot is empty, the ring
\* taken out of it is released and the window uses the procedure that had
\* been saved at construction again: the hook is Uninitialized at that point.
C1_TeardownBeforeResizeTrampoline ==
    \A t \in DetourThreads :
        (pc[t] = "rz_tramp" /\ loc[t].hadRenderer) =>
            /\ ~slot.exists
            /\ ~loc[t].taken.exists
            /\ curWndProc = loc[t].savedProc
            /\ curWndProc # "shim"
            /\ call[t].ntramp = 0

C1_Witness ==
    \E t \in DetourThreads :
        /\ pc[t] = "rz_tramp" /\ loc[t].hadRenderer
        /\ loc[t].prevRing = 2 /\ call[t].args.buffer_count = 3

\* C2: after a resize that the original routine carried out with buffer count
\* M, the renderer the next present builds has a ring of exactly M frame
\* contexts, the count the swap chain has at that present, whatever the size
\* of the ring torn down before.
C2_RingRebuiltWithNewCount ==
    \A t \in DetourThreads :
        (pc[t] = "p_store" /\ loc[t].built) =>
            /\ Len(loc[t].building.frame_contexts) = bufferCount
            /\ lastResize.status = "S_OK" =>
                   Len(loc[t].building.frame_contexts) = lastResize.count

C2_Witness ==
    \E t \in DetourThreads :
        /\ pc[t] = "p_store" /\ loc[t].built
        /\ lastResize = [count |-> 3, status |-> "S_OK", prev |-> 2]
        /\ Len(loc[t].building.frame_contexts) = 3

(***************************************************************************)
(* Properties of the frame ring                                            *)
(***************************************************************************)

\* C3: the frame step never resets a frame context's command allocator while
\* the list last submitted from that context is still queued on the GPU (its
\* completion has not reached the value signaled for it).
C3_ResetOnlyAfterCompletion ==
    \A t \in DetourThreads : ~resetBusy[t]

\* C4: the fence values handed out by incr are strictly increasing in the
\* order of the fetch_add, so no two calls get the same value, also when two
\* loops call it concurrently.
C4_FenceValuesStrictlyIncrease ==
    /\ \A i, j \in 1..Len(dhanded) : i < j => dhanded[i] < dhanded[j]
    /\ \A k, l \in DLoops :
           (k # l /\ dpc[k] = "store" /\ dpc[l] = "store") => dtmp[k] # dtmp[l]

C4_Witness ==
    /\ dpc["main"] = "store" /\ dpc["other"] = "store"
    /\ Len(dhanded) >= 3
    /\ dtmp["main"] < dtmp["other"]

(***************************************************************************)
(* Properties of the window procedure shim                                 *)
(***************************************************************************)

\* C5: a shim invocation that finds the renderer lock held elsewhere hands the
\* message it received, unchanged, to the window procedure that was saved at
\* construction (the host's), having read and written nothing of the renderer.
C5_ContendedForwardsToSaved ==
    (wpc = "w_ret" /\ wpath = "contended") =>
        /\ wfwd.to = "host"
        /\ wfwd.msg = wmsg
        /\ wproc = "none"

\* C6: the shim never waits for the renderer lock: as long as the process is
\* alive, an invocation in progress can always take its next step, whoever
\* holds the lock and for however long.
C6_ShimNeverWaits ==
    (wpc # "idle" /\ ~crashed) => ENABLED ShimStep

C6_Witness ==
    /\ wpc = "w_ret" /\ wpath = "contended" /\ ~crashed
    /\ lock = "render"
    /\ wfwd.msg = wmsg

\* C7: an invocation that got the lock forwards the message after translating
\* it, for every kind of message, focus gain and loss included: none returns
\* to the pump without the saved procedure having been called with it.
C7_LockedAlwaysForwards ==
    (wpc = "w_ret" /\ wpath = "locked") =>
        /\ wfwd.to = "host"
        /\ wfwd.msg = wmsg

(***************************************************************************)
(* Properties of the detours                                               *)
(***************************************************************************)

\* C8: each detour calls its trampoline exactly once on every path, with the
\* arguments it was called with, and the present and resize detours return
\* the status their trampoline returned.
C8_TrampolineOnceSameArgs ==
    \A t \in DetourThreads :
        /\ call[t] # NoCall => call[t].ntramp <= 1
        /\ nested[t] # NoCall => nested[t].ntramp <= 1
        /\ pc[t] = "returned" =>
               /\ call[t].ntramp = 1
               /\ call[t].targs = call[t].args
               /\ call[t].fn \in {"present", "resize"} =>
                      call[t].ret = call[t].tret /\ call[t].ret \in Statuses
        /\ pc[t] = "e_ret" =>
               /\ EclCall(t).ntramp = 1
               /\ EclCall(t).targs = EclCall(t).args

C8_Witness ==
    \E t \in DetourThreads :
        /\ pc[t] = "returned" /\ call[t].fn = "present"
        /\ "execute_command_lists" \in Range(flog[t])
        /\ call[t].args.sync_interval = 1
        /\ call[t].ret = "DXGI_ERROR"

\* C9: a present whose render finds no command queue captured skips the frame
\* altogether (no render callback, no allocator or list reset, no barrier, no
\* submission) and still calls the present trampoline, once.
C9_NoQueueSkipsFrame ==
    \A t \in DetourThreads :
        (call[t].fn = "present" /\ loc[t].queueSeen = "none") =>
            /\ Range(flog[t]) \cap Range(FrameRecording) = {}
            /\ "execute_command_lists" \notin Range(flog[t])
            /\ nested[t] = NoCall
            /\ ~resetBusy[t]
            /\ pc[t] \in {"p_unlock", "p_tramp", "p_ret", "returned"}
            /\ pc[t] \in {"p_ret", "returned"} =>
                   call[t].ntramp = 1 /\ "present_trampoline" \in Range(flog[t])

C9_Witness ==
    \E t \in DetourThreads :
        /\ pc[t] = "returned" /\ call[t].fn = "present"
        /\ loc[t].queueSeen = "none" /\ ~loc[t].built
        /\ flog[t] = << "present_trampoline" >>

\* C10: the execute-command-lists detour records the queue only on its first
\* invocation that finds a renderer; an invocation that finds none records
\* nothing and leaves the capture unused; a later invocation leaves the
\* recorded queue as it is; and the queue recorded in a renderer never changes
\* as long as that renderer stays in the slot.
C10_CaptureState ==
    \A t \in DetourThreads :
        pc[t] \in {"e_tramp", "e_ret", "returned"} =>
            /\ loc[t].eclPath = "absent" => ~guard /\ ~slot.exists
            /\ loc[t].eclPath = "capture" =>
                   guard /\ slot.exists /\ slot.command_queue = EclCall(t).args.queue

C10_CaptureStep ==
    (slot.exists /\ slot.command_queue # "none" /\ slot'.exists)
        => slot'.command_queue = slot.command_queue

C10_CaptureOnce == []C10_CaptureState /\ [][C10_CaptureStep]_vars

C10_Witness ==
    \E t \in DetourThreads :
        /\ pc[t] = "returned" /\ call[t].fn = "ecl"
        /\ loc[t].eclPath = "guarded"
        /\ slot.exists /\ slot.command_queue = "q1"
        /\ call[t].args.queue = "q2"

(***************************************************************************)
(* Properties of the first present, of teardown and of the lock            *)
(***************************************************************************)

\* C11: a present call that finds no renderer builds one whose ring has as
\* many contexts as the swap chain has buffers, leaves it in the slot, renders
\* the overlay frame within that same call, and calls the present trampoline
\* exactly once with the sync interval and flags it was called with.
C11_FirstPresentRenders ==
    \A t \in DetourThreads :
        (pc[t] = "returned" /\ call[t].fn = "present" /\ loc[t].built) =>
            /\ slot.exists
            /\ Len(slot.frame_contexts) = bufferCount
            /\ "render_callback" \in Range(flog[t])
            /\ "execute_command_lists" \in Range(flog[t])
            /\ call[t].ntramp = 1
            /\ call[t].targs = call[t].args

\* C12: the teardown on resize destroys the ring's GPU objects only when no
\* command list submitted from one of its frame contexts is still in flight on
\* the GPU (every context's fence has been waited for).
C12_TeardownAfterFences ==
    \A t \in DetourThreads : loc[t].destroyedInFlight = {}

\* C13: the host's window procedure is put back once by every teardown, never
\* while a shim invocation on the pump thread is inside the renderer being torn
\* down, and after it no shim invocation touches the torn-down renderer.
C13_RestoreOnceNoRace ==
    /\ \A t \in DetourThreads :
           (loc[t].hadRenderer /\ pc[t] \in {"rz_guard", "rz_tramp", "rz_ret", "returned"})
               => curWndProc = loc[t].savedProc
    /\ (wpc = "w_translate" /\ wstale # "no") =>
           /\ \A t \in DetourThreads : pc[t] # "rz_cleanup"
           /\ \E t \in DetourThreads : loc[t].taken.exists

\* C14: whoever reads or writes the renderer holds the renderer lock, and the
\* pump thread is never inside the renderer while a detour thread is.
C14_AccessUnderLock ==
    /\ wpc = "w_translate" => (lock = "pump" /\ wstale = "no")
    /\ \A t \in DetourThreads :
           /\ pc[t] \in {"p_render", "p_record", "p_submit", "e_set"} => lock = t
           /\ ~(wpc = "w_translate"
                  /\ pc[t] \in {"p_render", "p_record", "p_submit", "e_set", "rz_cleanup"})

(***************************************************************************)
(* Properties of hook installation                                         *)
(***************************************************************************)

\* C15: the trampoline table, once written, holds all three original-function
\* pointers; no hook is enabled before it is written; and every detour
\* invocation finds its entry populated and forwards through it.
C15_TableCompleteBeforeDetours ==
    /\ table.set => \A i \in Targets : table[i] = "orig"
    /\ \A i \in Targets : mh[i] = "enabled" => table.set
    /\ hfired \in {"none", "forwarded"}

\* C16: a hook_imgui call in which one of the three MH_CreateHook calls fails
\* returns no hook records and does not publish the trampoline table.
C16_FailedCreateAborts ==
    (\E i \in Targets : hstatus[i] \notin {"none", "MH_OK"}) =>
        (hret = "none" /\ ~hpublished)

(***************************************************************************)
(* Properties of the frame step                                            *)
(***************************************************************************)
FrameStepOrder ==
    << "wait_fence", "allocator_reset", "barrier_present_to_render_target",
       "set_render_targets", "set_descriptor_heaps", "render_draw_data",
       "barrier_render_target_to_present", "close", "execute_command_lists",
       "present_trampoline" >>

IsFrameStep(e) == e \in Range(FrameStepOrder)

\* C17: in a present call that renders a frame, the steps are, in this order
\* and once each: the wait for the frame context's fence, the allocator reset,
\* the PRESENT to RENDER_TARGET barrier, the binding of render target and
\* descriptor heap, the translation of the draw data, the RENDER_TARGET to
\* PRESENT barrier, the close, the submission, and then the present trampoline.
C17_FrameStepsInOrder ==
    \A t \in DetourThreads :
        (pc[t] = "p_ret" /\ "render_callback" \in Range(flog[t])) =>
            SelectSeq(flog[t], IsFrameStep) = FrameStepOrder

\* C18: the ring of a renderer has one frame context per back buffer; context
\* i has the descriptor offset base + i * increment, so the offsets are
\* pairwise distinct; and every context has a fence of its own.
C18_RingContextsDistinct ==
    slot.exists =>
        LET fc == slot.frame_contexts
        IN  /\ Len(fc) = bufferCount /\ Len(fc) >= 2
            /\ \A i \in 1..Len(fc) : fc[i].desc_handle = RtvBase + (i - 1) * RtvInc
            /\ \A i, j \in 1..Len(fc) : i # j => fc[i].desc_handle # fc[j].desc_handle
            /\ \A i \in 1..Len(fc) : "fence" \in DOMAIN fc[i]
            /\ \A i, j \in 1..Len(fc) : i # j => fc[i].fence # fc[j].fence

Count(q, e) == Cardinality({ i \in 1..Len(q) : q[i] = e })

\* C19: a present call invokes the render callback once when it renders its
\* frame and not at all when it skips it, and the callback is handed the value
\* the focus flag has at the moment of the call.
C19_CallbackState ==
    \A t \in DetourThreads :
        call[t].fn = "present" =>
            /\ Count(flog[t], "render_callback") <= 1
            /\ loc[t].queueSeen = "none" => Count(flog[t], "render_callback") = 0
            /\ "execute_command_lists" \in Range(flog[t])
                   => Count(flog[t], "render_callback") = 1
            /\ (pc[t] = "returned" /\ Count(flog[t], "render_callback") = 1)
                   => "execute_command_lists" \in Range(flog[t])

C19_CallbackStep ==
    \A t \in DetourThreads :
        (pc[t] = "p_record" /\ pc'[t] = "p_submit") =>
            /\ loc'[t].cbFlags = slot.flags
            /\ slot'.flags = slot.flags

C19_CallbackOncePerFrame == []C19_CallbackState /\ [][C19_CallbackStep]_vars

C19_Witness ==
    \E t \in DetourThreads :
        /\ pc[t] = "returned" /\ call[t].fn = "present"
        /\ Count(flog[t], "render_callback") = 1
        /\ loc[t].cbFlags = [focused |-> FALSE]

\* C20: every focus message delivered to the shim while a renderer exists
\* leaves the focus flag at the state the message announces: false after a
\* focus loss, true after a focus gain.
C20_FocusFlagFollowsMessages ==
    (/\ wpc = "w_ret" /\ wmsg.umsg = "WM_ACTIVATE"
     /\ wpath \in {"locked", "contended"} /\ slot.exists)
        => slot.flags.focused = (loword(wmsg.wparam) # WA_INACTIVE)

(***************************************************************************)
(* Properties of the fence wait                                            *)
(***************************************************************************)

\* C21: when the GPU goes on executing what is queued, every wait_fence
\* returns and the frame that began with it completes its Present: the value
\* a frame context waits for was queued for signaling on its own fence by the
\* frame that stored it.
C21_WaitTerminates ==
    \A l \in DLoops :
        (dpc[l] = "wait") ~> (dpc[l] = "start")

C21_Witness ==
    \E l \in DLoops :
        /\ dpc[l] = "wait" /\ ~WaitOver(DCur(l))
        /\ \E k \in 1..Len(dqueue[l]) :
              /\ dqueue[l][k].kind = "signal"
              /\ dqueue[l][k].ctx = didx[l]
              /\ dqueue[l][k].val = DCur(l).fence_val

(***************************************************************************)
(* The resize detour without a renderer                                    *)
(***************************************************************************)
ResizePcs == {"rz_take", "rz_lock", "rz_cleanup", "rz_guard", "rz_tramp", "rz_ret"}

InResize(t) == call[t] # NoCall /\ call[t].fn = "resize"

\* a resize call whose take() found the cell empty is past its take here
C22_State ==
    \A t \in DetourThreads :
        InResize(t) /\ ~loc[t].hadRenderer =>
            /\ pc[t] \notin {"rz_lock", "rz_cleanup"}
            /\ pc[t] \in {"rz_guard", "rz_tramp", "rz_ret", "returned"} =>
                  /\ ~slot.exists
                  /\ loc[t].taken = NoRenderer
                  /\ loc[t].destroyedInFlight = {}
            /\ pc[t] \in {"rz_tramp", "rz_ret", "returned"} => ~guard
            /\ pc[t] \in {"rz_ret", "returned"} =>
                  call[t].ntramp = 1 /\ call[t].targs = call[t].args
            /\ pc[t] = "returned" => call[t].ret = call[t].tret

C22_Step ==
    \A t \in DetourThreads :
        (InResize(t) /\ pc[t] \in ResizePcs /\ pc'[t] # pc[t] /\ ~loc'[t].hadRenderer) =>
            /\ curWndProc' = curWndProc
            /\ slot' = slot
            /\ lock' = lock
            /\ pending' = pending
            /\ ~slot'.exists

\* C22: a resize detour that finds no renderer tears nothing down: it leaves
\* the window procedure as it is, builds nothing, leaves the slot empty and
\* calls the resize trampoline once with its own arguments.
C22_ResizeWithoutRenderer == []C22_State /\ [][C22_Step]_vars

C22_Witness ==
    \E t \in DetourThreads :
        /\ InResize(t) /\ pc[t] = "returned" /\ ~loc[t].hadRenderer
        /\ call[t].ntramp = 1 /\ call[t].tret = "S_OK"
        /\ ~slot.exists /\ curWndProc = "host"

(***************************************************************************)
(* Failures inside a frame                                                 *)
(***************************************************************************)
InPresent(t) == call[t] # NoCall /\ call[t].fn = "present"

\* the whole of a frame's log once the frame has presented
WholeFrame == FrameRecording \o << "execute_command_lists" >>

IsRenderStep(e) == e \in Range(WholeFrame)

Rendered(t) == SelectSeq(flog[t], IsRenderStep)

\* a frame past its render, with the queue captured, has recorded and submitted
\* the whole frame and forwards once with the call's own arguments
FrameCompletes(t) ==
    /\ pc[t] \in {"p_unlock", "p_tramp", "p_ret", "returned"} =>
          Rendered(t) = IF loc[t].queueSeen = "none" THEN << >> ELSE WholeFrame
    /\ pc[t] \in {"p_ret", "returned"} =>
          call[t].ntramp = 1 /\ call[t].targs = call[t].args
    /\ pc[t] = "returned" => call[t].ret = call[t].tret

C23_State ==
    \A t \in DetourThreads :
        InPresent(t) /\ loc[t].rect = "failed" => FrameCompletes(t)

\* the render step whose query fails leaves io as it was and goes where the
\* step of a query that succeeds goes
C23_Step ==
    \A t \in DetourThreads :
        (pc[t] = "p_render" /\ pc'[t] # pc[t] /\ loc'[t].rect = "failed") =>
            /\ slot'.io.display_size = slot.io.display_size
            /\ slot'.io.mouse_pos = slot.io.mouse_pos
            /\ pc'[t] = IF slot.command_queue = "none" THEN "p_unlock" ELSE "p_record"

\* C23: when GetWindowRect fails in a frame, display_size and mouse_pos keep
\* their values and the frame goes on: it records, submits and forwards to the
\* present trampoline as a frame whose query succeeded.
C23_RectFailureKeepsFrame == []C23_State /\ [][C23_Step]_vars

C23_Witness ==
    \E t \in DetourThreads :
        /\ InPresent(t) /\ pc[t] = "returned" /\ loc[t].rect = "failed"
        /\ slot.exists /\ slot.io.display_size = "window"
        /\ Rendered(t) = WholeFrame /\ call[t].ntramp = 1

\* C24: a frame whose draw-data translation reports an error still records the
\* RENDER_TARGET to PRESENT barrier and the close, submits the command list and
\* forwards to the present trampoline; and every frame that reaches the
\* translation, the one after a failed frame included, does the same.
C24_DrawErrorKeepsFrame ==
    \A t \in DetourThreads :
        InPresent(t) /\ loc[t].draw # "none" =>
            /\ FrameCompletes(t)
            /\ pc[t] \in {"p_submit", "e_guard", "e_lock", "e_set", "e_tramp", "e_ret"} =>
                  Rendered(t) \in {FrameRecording, WholeFrame}

C24_Witness ==
    \E t \in DetourThreads :
        /\ InPresent(t) /\ pc[t] = "returned" /\ loc[t].draw = "failed"
        /\ Rendered(t) = WholeFrame
        /\ call[t].ntramp = 1 /\ call[t].tret = "S_OK"
        /\ Len(pending) > 0 /\ pending[Len(pending)] = loc[t].idx

(***************************************************************************)
(* Properties of the detours under concurrent calls                        *)
(***************************************************************************)

\* C25: whenever the renderer in the cell has a captured queue, the capture
\* guard is set (or the capturing detour is about to set it), and an
\* execute-command-lists detour entered from render never goes for the
\* renderer lock, which its own thread holds.
C25_ReentryNeverLocks ==
    /\ (slot.exists /\ slot.command_queue # "none") =>
           (guard \/ \E t \in DOMAIN pc : pc[t] = "e_store")
    /\ \A t \in DOMAIN pc : InNested(t) => pc[t] \notin {"e_lock", "e_set"}

\* C26: a frame context's allocator is never reset while the list that the
\* context's previous frame submitted is still in flight, and no value handed
\* out by incr equals the value a new fence starts with.
C26_NoResetInFlight ==
    /\ \A l \in DLoops : ~dbusy[l]
    /\ \A i \in 1..Len(dhanded) : dhanded[i] # NewDContext.completed

\* C27: whenever a resize detour calls its trampoline, no renderer, and so no
\* ring of back-buffer references, is alive: no present has built one since
\* the detour's teardown.
C27_NoRingAtResizeTrampoline ==
    [][\A t \in DOMAIN pc :
          (pc[t] = "rz_tramp" /\ pc'[t] = "rz_ret") => ~BackBufferRefs]_vars

\* C28: the window procedure a renderer has saved as the host's original is
\* never the shim, for the renderer in the cell, one being built and one taken
\* out of the cell.
C28_SavedProcNeverShim ==
    /\ slot.exists => slot.wnd_proc # "shim"
    /\ \A t \in DOMAIN loc :
          /\ loc[t].building.exists => loc[t].building.wnd_proc # "shim"
          /\ loc[t].taken.exists => loc[t].taken.wnd_proc # "shim"

\* C29: when no detour is running, the shim is the window's procedure if a
\* renderer is in the cell, and the host's original is if none is.
C29_ShimIffRenderer ==
    (\A t \in DOMAIN pc : pc[t] = "idle") =>
        /\ slot.exists => curWndProc = "shim"
        /\ ~slot.exists => curWndProc = "host"

\* C30: the ring of the renderer in the cell has as many contexts as the swap
\* chain has buffers, so the back-buffer index render looks up is inside the
\* ring.
C30_RingMatchesBufferCount ==
    /\ slot.exists => Len(slot.frame_contexts) = bufferCount
    /\ \A t \in DOMAIN pc :
          (pc[t] = "p_record" /\ slot.exists) => backIdx < Len(slot.frame_contexts)

(***************************************************************************)
(* The shim's lock and the saved procedure                                 *)
(***************************************************************************)

\* C31: the shim does not hold the renderer lock when it calls the saved
\* window procedure or DefWindowProcW, nor after it has returned: whatever the
\* called procedure does on the pump thread finds no lock held by that thread.
C31_ForwardsWithoutLock ==
    /\ wpc \in {"w_call", "w_def", "w_ret", "idle"} => lock # "pump"
    /\ wfwd # NoFwd => lock # "pump"

C31_Witness ==
    /\ wpc = "w_call" /\ wpath = "locked" /\ wstale = "no"
    /\ slot.exists /\ wproc = slot.wnd_proc /\ lock = "free"

(***************************************************************************)
(* Rebuilding the renderer after a resize                                  *)
(***************************************************************************)

\* C32: the one-time queue capture is armed again for every rebuilt renderer:
\* whenever no detour is running and the renderer in the cell has no queue,
\* COMMAND_QUEUE_GUARD is unset, so that the next execute-command-lists call
\* records its queue and a later present renders; with the guard set over a
\* renderer without a queue, no number of present and execute-command-lists
\* calls makes the overlay render again.
C32_CaptureRearmed ==
    ((\A t \in DOMAIN pc : pc[t] = "idle") /\ slot.exists /\ slot.command_queue = "none")
        => ~guard

Renderers == {slot} \cup { loc[t].building : t \in DOMAIN loc }
                    \cup { loc[t].taken : t \in DOMAIN loc }

\* C33: every renderer state, in the cell, being built or taken out, has
\* received the consumer's initialize callback exactly once; a present call
\* runs initialize once when it builds the renderer and not at all when it
\* finds one; initialize runs only while the cell is empty, the cell is only
\* ever filled by a present that has run it, and the render callback only ever
\* runs on a renderer state that has received it.
C33_State ==
    /\ \A r \in Renderers : r.exists => r.initialized = 1
    /\ \A t \in DetourThreads :
           InPresent(t) =>
               Count(flog[t], "initialize") = (IF loc[t].built THEN 1 ELSE 0)

C33_Step ==
    \A t \in DetourThreads :
        /\ (~slot.exists /\ slot'.exists) =>
               /\ pc[t] = "p_store" /\ Count(flog[t], "initialize") = 1
               /\ slot' = loc[t].building
        /\ flog'[t] # flog[t] =>
               /\ Count(flog'[t], "initialize") > Count(flog[t], "initialize") =>
                      ~slot.exists /\ pc[t] = "p_build"
               /\ Count(flog'[t], "render_callback") > Count(flog[t], "render_callback") =>
                      Guarded.exists /\ Guarded.initialized = 1

C33_InitializeOncePerBuild == []C33_State /\ [][C33_Step]_vars

\* a present has run the render callback on a renderer that an earlier present built
C33_Witness ==
    \E t \in DetourThreads :
        /\ InPresent(t) /\ pc[t] = "returned" /\ ~loc[t].built
        /\ "render_callback" \in Range(flog[t])
        /\ slot.exists /\ slot.initialized = 1
====
